---- MODULE Spec2Model ----
(***************************************************************************)
(* Model of src/main.py: the Telegram fitness bot.  State: the per-user    *)
(* session (context.user_data), the four SQLite tables, and a record of    *)
(* what the last handler was called with and what it sent.  One action per *)
(* handler; every awaited send may raise, which is an input of the action. *)
(***************************************************************************)
EXTENDS Integers, Sequences, FiniteSets, TLC

VARIABLES session, gyms, users, payments, programs, out

\* hcase: two profiles and a type handed to make_hash, and the two results
VARIABLES hcase

\* ticked: whether CURRENT_TIMESTAMP has moved on since the last insert into programs
\* got: the last call on the program cache and what it returned
VARIABLES ticked, got

botvars == <<session, gyms, users, payments, programs, out>>

\* inv: the /approve invocations in flight, each at its await point
\* tally: per payment id, how often it was set to approved and how many notifications were sent
VARIABLES inv, tally

\* asked: the latest valid answer given for each step since the step was last set to age
VARIABLES asked

auxvars == <<hcase, ticked, got, inv, tally, asked>>

vars == <<session, gyms, users, payments, programs, out, hcase, ticked, got, inv, tally, asked>>

(* ---------------- bounds of the model ---------------- *)
MaxUserRows == 2
MaxPayments == 1

(* ---------------- optional values (Python None) ---------------- *)
None == <<>>
Some(v) == <<v>>

(* ---------------- text: a str is a sequence of characters ---------------- *)
DecChars == <<"0", "1", "2", "3", "4", "5", "6", "7", "8", "9">>

DecCharSet == {DecChars[i] : i \in 1..Len(DecChars)}

\* "sup2" stands for the character U+00B2: str.isdigit() is True, int() rejects it
DigitCharSet == DecCharSet \cup {"sup2"}

SpaceCharSet == {" "}

DigitVal(c) == (CHOOSE i \in 1..Len(DecChars) : DecChars[i] = c) - 1

RECURSIVE LStrip(_)
LStrip(s) == IF Len(s) > 0 /\ Head(s) \in SpaceCharSet THEN LStrip(Tail(s)) ELSE s

RECURSIVE RStrip(_)
RStrip(s) ==
  IF Len(s) > 0 /\ s[Len(s)] \in SpaceCharSet
  THEN RStrip(SubSeq(s, 1, Len(s) - 1))
  ELSE s

\* str.strip()
Strip(s) == RStrip(LStrip(s))

\* str.isdigit()
IsDigit(s) == Len(s) > 0 /\ \A i \in 1..Len(s) : s[i] \in DigitCharSet

RECURSIVE ReplaceFirstDot(_)
\* str.replace('.', '', 1)
ReplaceFirstDot(s) ==
  IF Len(s) = 0 THEN s
  ELSE IF Head(s) = "." THEN Tail(s)
  ELSE <<Head(s)>> \o ReplaceFirstDot(Tail(s))

RECURSIVE DigitsValue(_)
DigitsValue(s) ==
  IF Len(s) = 0 THEN 0
  ELSE 10 * DigitsValue(SubSeq(s, 1, Len(s) - 1)) + DigitVal(s[Len(s)])

IsDecimalStr(s) == Len(s) > 0 /\ \A i \in 1..Len(s) : s[i] \in DecCharSet

\* int(text): None stands for ValueError
PyInt(s) == IF IsDecimalStr(Strip(s)) THEN Some(DigitsValue(Strip(s))) ELSE None

RECURSIVE NormFloat(_, _)
NormFloat(m, e) ==
  IF e > 0 /\ m % 10 = 0 THEN NormFloat(m \div 10, e - 1) ELSE [mant |-> m, exp |-> e]

DotPos(s) == IF \E i \in 1..Len(s) : s[i] = "."
             THEN CHOOSE i \in 1..Len(s) : s[i] = "." /\ \A j \in 1..(i - 1) : s[j] # "."
             ELSE 0

\* float(text) for a decimal literal: the value mant / 10^exp, None for ValueError
PyFloat(s) ==
  LET t == Strip(s)
      d == ReplaceFirstDot(t)
  IN  IF IsDecimalStr(d)
      THEN Some(NormFloat(DigitsValue(d), IF DotPos(t) = 0 THEN 0 ELSE Len(t) - DotPos(t)))
      ELSE None

RECURSIVE PyStr(_)
\* str(n) for n >= 0
PyStr(n) == IF n < 10 THEN <<DecChars[n + 1]>> ELSE PyStr(n \div 10) \o <<DecChars[(n % 10) + 1]>>

RECURSIVE SplitComma(_)
\* str.split(",")
SplitComma(s) ==
  IF \E i \in 1..Len(s) : s[i] = ","
  THEN LET i == CHOOSE k \in 1..Len(s) : s[k] = "," /\ \A j \in 1..(k - 1) : s[j] # ","
       IN  <<SubSeq(s, 1, i - 1)>> \o SplitComma(SubSeq(s, i + 1, Len(s)))
  ELSE <<s>>

(* ---------------- configuration and transport identities ---------------- *)
\* Telegram user ids that talk to the bot
Users == {1, 2}

\* the users who go through the profile conversation
Members == {1}

\* value of the ADMIN_CHAT_ID environment variable: "2, x"
ADMIN_CHAT_ID == <<"2", ",", " ", "x">>

\* admin_ids = [int(x) for x in ADMIN_CHAT_ID.split(",") if x.strip().isdigit()]
admin_ids ==
  LET parts == SplitComma(ADMIN_CHAT_ID)
  IN  {PyInt(parts[i])[1] : i \in {k \in 1..Len(parts) : IsDigit(Strip(parts[k]))}}

\* update.effective_user: username, first_name, last_name (None when the account has none)
effective_user(u) ==
  IF u = 1
  THEN [username |-> Some(<<"a", "l", "i">>), first_name |-> Some(<<"A">>), last_name |-> None]
  ELSE [username |-> None, first_name |-> Some(<<"B">>), last_name |-> Some(<<"C">>)]

OrEmpty(v) == IF v = None THEN <<>> ELSE v[1]

\* f"{user.first_name or ''} {user.last_name or ''}".strip()
full_name(u) ==
  Strip(OrEmpty(effective_user(u).first_name) \o <<" ">> \o OrEmpty(effective_user(u).last_name))

(* ---------------- the tables ---------------- *)
price_toman == 500000

\* 5.0
price_ton == NormFloat(50, 1)

\* create_default_gym: the one row of gyms
DefaultGymRow == [gym_id |-> "default_gym", price_toman |-> price_toman, price_ton |-> price_ton]

\* AUTOINCREMENT primary key of a table that is never deleted from
NextId(tbl) == Len(tbl) + 1

\* columns of users that carry a PRIMARY KEY or UNIQUE constraint: only id
UsersConflict(r, new) == r.id = new.id

RECURSIVE DeleteWhere(_, _)
DeleteWhere(tbl, new) ==
  IF Len(tbl) = 0 THEN <<>>
  ELSE IF UsersConflict(Head(tbl), new) THEN DeleteWhere(Tail(tbl), new)
  ELSE <<Head(tbl)>> \o DeleteWhere(Tail(tbl), new)

\* INSERT OR REPLACE: rows that conflict on a constrained column are deleted, then the row is inserted
InsertOrReplace(tbl, new) == Append(DeleteWhere(tbl, new), new)

\* save_user_profile; payment_status is not in the column list and takes its DEFAULT
save_user_profile(tbl, user_id, gym_id, profile) ==
  InsertOrReplace(tbl,
    [id |-> NextId(tbl), user_id |-> PyStr(user_id), gym_id |-> gym_id,
     username |-> profile.username, full_name |-> profile.full_name,
     age |-> profile.age, height |-> profile.height, weight |-> profile.weight,
     gender |-> profile.gender, goal |-> profile.goal,
     dietary_restrictions |-> profile.dietary_restrictions,
     preferred_foods |-> profile.preferred_foods,
     payment_status |-> "pending"])

(* ---------------- the session: context.user_data of one user ---------------- *)
Steps == <<"age", "height", "weight", "gender", "goal", "diet", "foods">>

\* an empty dict: .get() of every key is None
EmptySession ==
  [step |-> "None", gym_id |-> "None", age |-> None, height |-> None, weight |-> None,
   gender |-> None, goal |-> None, dietary_restrictions |-> None, preferred_foods |-> None]

(* ---------------- what a handler was called with and what it sent ---------------- *)
Msg(kind, data, ok) == [kind |-> kind, data |-> data, ok |-> ok]

\* a send in tail position that raises leaves the state as a delivered one does; only the sends
\* that are followed by more code (the terminal step's prompt, the approval's two sends) are
\* tried both ways
Called(op, caller, text, args, replies, notify, raised) ==
  [op |-> op, caller |-> caller, text |-> text, args |-> args,
   replies |-> replies, notify |-> notify, raised |-> raised]

\* the state after init_db, create_default_gym and BotApp.__init__
InitBot ==
  /\ session = [u \in Users |-> EmptySession]
  /\ gyms = <<DefaultGymRow>>
  /\ users = <<>>
  /\ payments = <<>>
  /\ programs = <<>>
  /\ out = Called("init", 0, <<>>, <<>>, <<>>, <<>>, FALSE)

\* nothing handed to make_hash
NoHashCase == [p1 |-> None, p2 |-> None, type |-> None, h1 |-> None, h2 |-> None]

\* a call on the program cache: its arguments, the text it returned, whether it called the provider
CacheCall(op, hash, gym_id, text, provider) ==
  [op |-> op, hash |-> hash, gym_id |-> gym_id, text |-> text, provider |-> provider]

NoCacheCall == CacheCall("none", None, "None", None, FALSE)

\* an /approve invocation that has not started
NoInvocation == [pc |-> "new", caller |-> 0, args |-> <<>>, id |-> 0, user_id |-> None, sent |-> "no"]

Invocations == {1, 2}

NoInvocations == [i \in Invocations |-> NoInvocation]

\* nothing approved, nobody notified: sets of <<invocation, payment id>>
NoTally == [approved |-> {}, notified |-> {}]

\* no answer given yet
NoAnswers == [st \in {Steps[k] : k \in 1..Len(Steps)} |-> None]

InitAux ==
  /\ ticked = FALSE
  /\ got = NoCacheCall
  /\ inv = NoInvocations
  /\ tally = NoTally
  /\ asked = NoAnswers

Init ==
  /\ InitBot
  /\ hcase = NoHashCase
  /\ InitAux

\* mutant: /start unsets the step and keeps the collected fields
cmd_start_KeepsFields(u) ==
  /\ session' = [session EXCEPT ![u].step = "None"]
  /\ out' = Called("start", u, <<>>, <<>>, <<Msg("welcome", {}, TRUE)>>, <<>>, FALSE)
  /\ UNCHANGED <<gyms, users, payments, programs>>

\* /start
cmd_start(u) ==
  /\ session' = [session EXCEPT ![u] = EmptySession]
  /\ out' = Called("start", u, <<>>, <<>>, <<Msg("welcome", {}, TRUE)>>, <<>>, FALSE)
  /\ UNCHANGED <<gyms, users, payments, programs>>

\* callback query with q.data = data
cb_handler(u) ==
  \E data \in {<<"start_profile">>, <<"other">>} :
    /\ IF data = <<"start_profile">>
       THEN /\ session' = [session EXCEPT ![u].gym_id = "default_gym", ![u].step = "age"]
            /\ out' = Called("callback", u, data, <<>>, <<Msg("ask_age", {}, TRUE)>>, <<>>, FALSE)
       ELSE /\ session' = session
            /\ out' = Called("callback", u, data, <<>>, <<>>, <<>>, FALSE)
    /\ UNCHANGED <<gyms, users, payments, programs>>

(* ---------------- msg_handler ---------------- *)
\* the texts tried at each step
Answers(step) ==
  CASE step = "age"    -> { <<" ", "0", "7">>, <<"a", "b">>, <<"1", ".", "5">>, <<"sup2">> }
    [] step = "height" -> { <<"1", "8", "0", ".">>, <<"1", ".", "8", ".", "0">>, <<"sup2">> }
    [] step = "weight" -> { <<"7", "5", ".", "5", "0">>, <<"-", "5">> }
    [] step = "gender" -> { <<"m", " ">> }
    [] step = "goal"   -> { <<"c", "u", "t">> }
    [] step = "diet"   -> { <<"n", "o">> }
    [] step = "foods"  -> { <<"r", "i", "c", "e">> }
    [] OTHER           -> { <<"h", "i">> }

\* the validation predicate of a numeric step, on the stripped text
ValidAt(step, text) ==
  CASE step = "age" -> IsDigit(text)
    [] step \in {"height", "weight"} -> IsDigit(ReplaceFirstDot(text))
    [] OTHER -> TRUE

\* the profile dict assembled at the terminal step
Profile(u, s) ==
  [username |-> effective_user(u).username, full_name |-> Some(full_name(u)),
   age |-> s.age, height |-> s.height, weight |-> s.weight, gender |-> s.gender,
   goal |-> s.goal, dietary_restrictions |-> s.dietary_restrictions,
   preferred_foods |-> s.preferred_foods]

Result(s, tbl, replies, raised) == [sess |-> s, users |-> tbl, replies |-> replies, raised |-> raised]

\* mutant: a failed validation throws the session away
NumericStep_ResetOnInvalid(s, tbl, step, text, value, next, bad, ask) ==
  IF ~ValidAt(step, text) THEN Result(EmptySession, tbl, <<Msg(bad, {}, TRUE)>>, FALSE)
  ELSE IF value = None THEN Result(s, tbl, <<>>, TRUE)
  ELSE Result([[s EXCEPT ![step] = value] EXCEPT !.step = next], tbl, <<Msg(ask, {}, TRUE)>>, FALSE)

\* mutant: the converted value is stored with setdefault, an answer already in the session stays
NumericStep_KeepsFirst(s, tbl, step, text, value, next, bad, ask) ==
  IF ~ValidAt(step, text) THEN Result(s, tbl, <<Msg(bad, {}, TRUE)>>, FALSE)
  ELSE IF value = None THEN Result(s, tbl, <<>>, TRUE)
  ELSE Result([[s EXCEPT ![step] = IF s[step] = None THEN value ELSE s[step]] EXCEPT !.step = next],
              tbl, <<Msg(ask, {}, TRUE)>>, FALSE)

\* one numeric step: validate, convert (may raise ValueError), store, advance, prompt
NumericStep(s, tbl, step, text, value, next, bad, ask) ==
  IF ~ValidAt(step, text) THEN Result(s, tbl, <<Msg(bad, {}, TRUE)>>, FALSE)
  ELSE IF value = None THEN Result(s, tbl, <<>>, TRUE)
  ELSE Result([[s EXCEPT ![step] = value] EXCEPT !.step = next], tbl, <<Msg(ask, {}, TRUE)>>, FALSE)

\* one free-text step: store verbatim, advance, prompt
TextStep(s, tbl, key, text, next, ask) ==
  Result([[s EXCEPT ![key] = Some(text)] EXCEPT !.step = next], tbl, <<Msg(ask, {}, TRUE)>>, FALSE)

\* the terminal step: store, save the profile, send the payment prompt, clear the session
FoodsStep(s, tbl, u, text, ok) ==
  LET s1 == [s EXCEPT !.preferred_foods = Some(text)]
      tbl1 == save_user_profile(tbl, u, "default_gym", Profile(u, s1))
  IN  IF ok THEN Result(EmptySession, tbl1, <<Msg("saved", {}, TRUE)>>, FALSE)
      ELSE Result(s1, tbl1, <<Msg("saved", {}, FALSE)>>, TRUE)

\* mutant: a text in an idle session starts the flow at age
IdleStep_StartsFlow(s, tbl) ==
  Result([s EXCEPT !.step = "age"], tbl, <<Msg("ask_age", {}, TRUE)>>, FALSE)

\* the branch for an unset step: reject, ask for /start, return
IdleStep(s, tbl) == Result(s, tbl, <<Msg("restart", {}, TRUE)>>, FALSE)

\* msg_handler on the session s of user u; ok: whether the reply is delivered
HandleText(s, tbl, u, raw, ok) ==
  LET text == Strip(raw)
      step == s.step
  IN  IF step = "None" THEN IdleStep(s, tbl)
      ELSE IF step = "age"
        THEN NumericStep(s, tbl, "age", text, PyInt(text), "height", "bad_age", "ask_height")
      ELSE IF step = "height"
        THEN NumericStep(s, tbl, "height", text, PyFloat(text), "weight", "bad_height", "ask_weight")
      ELSE IF step = "weight"
        THEN NumericStep(s, tbl, "weight", text, PyFloat(text), "gender", "bad_weight", "ask_gender")
      ELSE IF step = "gender" THEN TextStep(s, tbl, "gender", text, "goal", "ask_goal")
      ELSE IF step = "goal" THEN TextStep(s, tbl, "goal", text, "diet", "ask_diet")
      ELSE IF step = "diet" THEN TextStep(s, tbl, "dietary_restrictions", text, "foods", "ask_foods")
      ELSE IF step = "foods" THEN FoodsStep(s, tbl, u, text, ok)
      ELSE Result(s, tbl, <<Msg("not_understood", {}, TRUE)>>, FALSE)

\* msg_handler called with the message text raw
MsgStep(u, raw, ok) ==
  LET r == HandleText(session[u], users, u, raw, ok)
  IN  /\ session[u].step = "foods" => Len(users) < MaxUserRows
      /\ session' = [session EXCEPT ![u] = r.sess]
      /\ users' = r.users
      /\ out' = Called("msg", u, raw, <<>>, r.replies, <<>>, r.raised)
      /\ UNCHANGED <<gyms, payments, programs>>

msg_handler(u) ==
  \E raw \in Answers(session[u].step), ok \in BOOLEAN : MsgStep(u, raw, ok)

(* ---------------- the payment workflow ---------------- *)
\* SELECT price_toman, price_ton FROM gyms WHERE gym_id = ?
GymLookup(tbl, gym_id) == {i \in 1..Len(tbl) : tbl[i].gym_id = gym_id}

\* mutant: the row is inserted as already approved
InsertPayment_Approved(tbl, u, gym) ==
  Append(tbl, [id |-> NextId(tbl), user_id |-> PyStr(u), gym_id |-> "default_gym",
               amount_toman |-> gym.price_toman, amount_ton |-> gym.price_ton,
               payment_method |-> "pending", status |-> "approved",
               admin_verified |-> FALSE, verified_at |-> "NULL"])

\* mutant: the toman price is written to both amount columns
InsertPayment_OnePrice(tbl, u, gym) ==
  Append(tbl, [id |-> NextId(tbl), user_id |-> PyStr(u), gym_id |-> "default_gym",
               amount_toman |-> gym.price_toman, amount_ton |-> NormFloat(gym.price_toman, 0),
               payment_method |-> "pending", status |-> "pending",
               admin_verified |-> FALSE, verified_at |-> "NULL"])

\* INSERT INTO payments (...) VALUES (?, ?, ?, ?, ?, 'pending'); admin_verified and verified_at take their defaults
InsertPayment(tbl, u, gym) ==
  Append(tbl, [id |-> NextId(tbl), user_id |-> PyStr(u), gym_id |-> "default_gym",
               amount_toman |-> gym.price_toman, amount_ton |-> gym.price_ton,
               payment_method |-> "pending", status |-> "pending",
               admin_verified |-> FALSE, verified_at |-> "NULL"])

\* /pay
cmd_pay(u) ==
  LET found == GymLookup(gyms, "default_gym")
  IN  /\ Len(payments) < MaxPayments
      /\ IF found = {}
         THEN /\ payments' = payments
              /\ out' = Called("pay", u, <<>>, <<>>, <<Msg("gym_missing", {}, TRUE)>>, <<>>, FALSE)
         ELSE /\ payments' = InsertPayment(payments, u, gyms[CHOOSE i \in found : TRUE])
              /\ out' = Called("pay", u, <<>>, <<>>,
                               <<Msg("pay_created", {<<NextId(payments)>>}, TRUE)>>, <<>>, FALSE)
      /\ UNCHANGED <<session, gyms, users, programs>>

\* SELECT id, user_id, amount_toman, amount_ton, created_at FROM payments WHERE status='pending'
PendingRows(tbl) ==
  {<<tbl[i].id, tbl[i].user_id, tbl[i].amount_toman, tbl[i].amount_ton>> :
     i \in {k \in 1..Len(tbl) : tbl[k].status = "pending"}}

\* mutant: the allow-list is not consulted
IsAdmin_Anyone(u) == u \in Users

\* update.effective_user.id in admin_ids
IsAdmin(u) == u \in admin_ids

\* the body of cmd_admin, which cmd_pending calls too
AdminReplies(u, tbl) ==
  IF ~IsAdmin(u) THEN <<Msg("admin_only", {}, TRUE)>>
  ELSE IF PendingRows(tbl) = {} THEN <<Msg("no_pending", {}, TRUE)>>
  ELSE <<Msg("pending_list", PendingRows(tbl), TRUE)>>

\* /admin
cmd_admin(u) ==
  /\ out' = Called("admin", u, <<>>, <<>>, AdminReplies(u, payments), <<>>, FALSE)
  /\ UNCHANGED <<session, gyms, users, payments, programs>>

\* /pending
cmd_pending(u) ==
  /\ out' = Called("pending", u, <<>>, <<>>, AdminReplies(u, payments), <<>>, FALSE)
  /\ UNCHANGED <<session, gyms, users, payments, programs>>

\* the words after /approve that are tried
ArgLists ==
  {<<>>, <<<<"0", "1">>>>} \cup {<<PyStr(i)>> : i \in 1..(MaxPayments + 1)}

\* id = ? with a text parameter against the INTEGER primary key: a word of decimal digits is
\* compared as the number it spells
SqlIdEq(id, pid) == IsDecimalStr(pid) /\ DigitsValue(pid) = id

\* mutant: the lookup does not filter on status
PendingPayment_AnyStatus(tbl, pid) == {i \in 1..Len(tbl) : SqlIdEq(tbl[i].id, pid)}

\* SELECT user_id, gym_id FROM payments WHERE id=? AND status='pending'
PendingPayment(tbl, pid) == {i \in 1..Len(tbl) : SqlIdEq(tbl[i].id, pid) /\ tbl[i].status = "pending"}

\* mutant: the UPDATE sets admin_verified and verified_at and leaves status as it is
ApprovePayment_KeepsPending(tbl, pid) ==
  [i \in 1..Len(tbl) |->
     IF SqlIdEq(tbl[i].id, pid)
     THEN [tbl[i] EXCEPT !.admin_verified = TRUE, !.verified_at = "set"]
     ELSE tbl[i]]

\* UPDATE payments SET status='approved', admin_verified=1, verified_at=CURRENT_TIMESTAMP WHERE id=?
ApprovePayment(tbl, pid) ==
  [i \in 1..Len(tbl) |->
     IF SqlIdEq(tbl[i].id, pid)
     THEN [tbl[i] EXCEPT !.status = "approved", !.admin_verified = TRUE, !.verified_at = "set"]
     ELSE tbl[i]]

\* mutant: the UPDATE has no WHERE clause
MarkPaid_Everyone(tbl, user_id, gym_id) ==
  [i \in 1..Len(tbl) |-> [tbl[i] EXCEPT !.payment_status = "paid"]]

\* UPDATE users SET payment_status='paid' WHERE user_id=? AND gym_id=?
MarkPaid(tbl, user_id, gym_id) ==
  [i \in 1..Len(tbl) |->
     IF tbl[i].user_id = user_id /\ tbl[i].gym_id = gym_id
     THEN [tbl[i] EXCEPT !.payment_status = "paid"]
     ELSE tbl[i]]

\* mutant: the notification is sent outside try/except
ApproveFound_NotifyRaises(payTbl, userTbl, pid, row, ok, delivered) ==
  [payments |-> ApprovePayment(payTbl, pid),
   users |-> MarkPaid(userTbl, row.user_id, row.gym_id),
   replies |-> <<Msg("approved", {<<pid>>}, ok)>>,
   notify |-> IF ok THEN <<[to |-> PyInt(row.user_id)[1], ok |-> delivered]>> ELSE <<>>,
   raised |-> ~ok \/ ~delivered]

\* the success path of cmd_approve on the pending row: the two updates are committed, the admin is
\* answered (ok: the reply is delivered; a raise ends the handler), and the user is notified inside
\* try/except (delivered: send_message does not raise)
ApproveFound(payTbl, userTbl, pid, row, ok, delivered) ==
  [payments |-> ApprovePayment(payTbl, pid),
   users |-> MarkPaid(userTbl, row.user_id, row.gym_id),
   replies |-> <<Msg("approved", {<<pid>>}, ok)>>,
   notify |-> IF ok THEN <<[to |-> PyInt(row.user_id)[1], ok |-> delivered]>> ELSE <<>>,
   raised |-> ~ok]

\* /approve <id>
cmd_approve(u) ==
  \E args \in ArgLists, ok \in BOOLEAN, delivered \in BOOLEAN :
    LET pid == args[1]
        found == PendingPayment(payments, pid)
        r == ApproveFound(payments, users, pid, payments[CHOOSE i \in found : TRUE], ok, delivered)
    IN  IF ~IsAdmin(u)
        THEN /\ out' = Called("approve", u, <<>>, args, <<Msg("admin_only", {}, TRUE)>>, <<>>, FALSE)
             /\ UNCHANGED <<session, gyms, users, payments, programs>>
        ELSE IF args = <<>>
        THEN /\ out' = Called("approve", u, <<>>, args, <<Msg("usage", {}, TRUE)>>, <<>>, FALSE)
             /\ UNCHANGED <<session, gyms, users, payments, programs>>
        ELSE IF found = {}
        THEN /\ out' = Called("approve", u, <<>>, args, <<Msg("not_found", {}, TRUE)>>, <<>>, FALSE)
             /\ UNCHANGED <<session, gyms, users, payments, programs>>
        ELSE /\ payments' = r.payments
             /\ users' = r.users
             /\ out' = Called("approve", u, <<>>, args, r.replies, r.notify, r.raised)
             /\ UNCHANGED <<session, gyms, programs>>

Next ==
  \/ \E u \in Members : cmd_start(u) /\ UNCHANGED auxvars
  \/ \E u \in Members : cb_handler(u) /\ UNCHANGED auxvars
  \/ \E u \in Members : msg_handler(u) /\ UNCHANGED auxvars
  \/ \E u \in Users : cmd_pay(u) /\ UNCHANGED auxvars
  \/ \E u \in Users : cmd_admin(u) /\ UNCHANGED auxvars
  \/ \E u \in Users : cmd_pending(u) /\ UNCHANGED auxvars
  \/ \E u \in Users : cmd_approve(u) /\ UNCHANGED auxvars

Spec == Init /\ [][Next]_vars

TypeOK ==
  /\ \A u \in Users : session[u].step \in {"None"} \cup {Steps[i] : i \in 1..Len(Steps)}
  /\ Len(users) <= MaxUserRows
  /\ Len(payments) <= MaxPayments
  /\ \A i \in 1..Len(payments) : payments[i].status \in {"pending", "approved"}
  /\ \A i \in 1..Len(users) : users[i].payment_status \in {"pending", "paid"}

(* ---------------- two /approve invocations in flight ---------------- *)
\* cmd_approve up to its first await: the allow-list check, the arguments, the SELECT, the two
\* UPDATEs and the commit run without yielding; the invocation then waits in a reply_text
ApproveStart(i) ==
  \E u \in Users, args \in ArgLists :
    LET pid == args[1]
        found == PendingPayment(payments, pid)
        row == payments[CHOOSE k \in found : TRUE]
        hit == {payments[k].id : k \in {j \in 1..Len(payments) : SqlIdEq(payments[j].id, pid)}}
        call == [NoInvocation EXCEPT !.caller = u, !.args = args]
    IN  /\ inv[i].pc = "new"
        /\ IF ~IsAdmin(u)
           THEN /\ inv' = [inv EXCEPT ![i] = [call EXCEPT !.pc = "reply_admin_only"]]
                /\ UNCHANGED <<payments, users, tally>>
           ELSE IF args = <<>>
           THEN /\ inv' = [inv EXCEPT ![i] = [call EXCEPT !.pc = "reply_usage"]]
                /\ UNCHANGED <<payments, users, tally>>
           ELSE IF found = {}
           THEN /\ inv' = [inv EXCEPT ![i] = [call EXCEPT !.pc = "reply_not_found"]]
                /\ UNCHANGED <<payments, users, tally>>
           ELSE /\ payments' = ApprovePayment(payments, pid)
                /\ users' = MarkPaid(users, row.user_id, row.gym_id)
                /\ inv' = [inv EXCEPT ![i] = [call EXCEPT !.pc = "reply_approved", !.id = row.id,
                                                          !.user_id = Some(row.user_id)]]
                /\ tally' = [tally EXCEPT !.approved = @ \cup {<<i, id>> : id \in hit}]
        /\ UNCHANGED <<session, gyms, programs, out, hcase, ticked, got, asked>>

\* the awaited reply_text returns (ok) or raises: only the success path goes on, to the notification
ApproveReply(i) ==
  \E ok \in BOOLEAN :
    /\ inv[i].pc \in {"reply_admin_only", "reply_usage", "reply_not_found", "reply_approved"}
    /\ inv' = [inv EXCEPT ![i].pc = IF inv[i].pc = "reply_approved" /\ ok THEN "notify" ELSE "done"]
    /\ UNCHANGED <<botvars, hcase, ticked, got, tally, asked>>

\* the awaited send_message to the payer returns (delivered) or raises inside try/except
ApproveNotify(i) ==
  \E delivered \in BOOLEAN :
    /\ inv[i].pc = "notify"
    /\ inv' = [inv EXCEPT ![i].pc = "done", ![i].sent = IF delivered THEN "delivered" ELSE "raised"]
    /\ tally' = [tally EXCEPT !.notified = @ \cup {<<i, inv[i].id>>}]
    /\ UNCHANGED <<botvars, hcase, ticked, got, asked>>

NextRace ==
  \/ \E u \in Users : cmd_pay(u) /\ UNCHANGED auxvars
  \/ \E i \in Invocations : ApproveStart(i)
  \/ \E i \in Invocations : ApproveReply(i)
  \/ \E i \in Invocations : ApproveNotify(i)

SpecRace == Init /\ [][NextRace]_vars

(* ---------------- the conversation with its answers recorded ---------------- *)
\* the user_data key a step writes
FieldOf(step) ==
  CASE step = "diet" -> "dietary_restrictions"
    [] step = "foods" -> "preferred_foods"
    [] OTHER -> step

\* the texts tried at each step: two different valid ages
Answers20(step) == IF step = "age" THEN Answers(step) \cup {<<"8">>} ELSE Answers(step)

\* the value a stripped text stands for at a step, None when it is not a valid answer there
AnswerValue(step, text) ==
  IF ~ValidAt(step, text) THEN None
  ELSE IF step = "age" THEN PyInt(text)
  ELSE IF step \in {"height", "weight"} THEN PyFloat(text)
  ELSE Some(text)

\* /start
Restart20(u) ==
  /\ cmd_start(u)
  /\ asked' = NoAnswers
  /\ UNCHANGED <<hcase, ticked, got, inv, tally>>

\* a button is pressed: start_profile sets the step to age
Button20(u) ==
  /\ cb_handler(u)
  /\ asked' = IF out'.text = <<"start_profile">> THEN NoAnswers ELSE asked
  /\ UNCHANGED <<hcase, ticked, got, inv, tally>>

\* a text message is handled
Answer20(u) ==
  \E raw \in Answers20(session[u].step), ok \in BOOLEAN :
    LET step == session[u].step
        value == AnswerValue(step, Strip(raw))
    IN  /\ MsgStep(u, raw, ok)
        /\ asked' = IF step # "None" /\ value # None THEN [asked EXCEPT ![step] = value] ELSE asked
        /\ UNCHANGED <<hcase, ticked, got, inv, tally>>

Next20 ==
  \/ \E u \in Members : Restart20(u)
  \/ \E u \in Members : Button20(u)
  \/ \E u \in Members : Answer20(u)

Spec20 == Init /\ [][Next20]_vars

(* ---------------- make_hash ---------------- *)
RECURSIVE Pow10(_)
Pow10(n) == IF n = 0 THEN 1 ELSE 10 * Pow10(n - 1)

RECURSIVE ZeroPad(_, _)
ZeroPad(s, n) == IF Len(s) >= n THEN s ELSE ZeroPad(<<"0">> \o s, n)

NoneText == <<"N", "o", "n", "e">>

\* an int in an f-string
FmtInt(v) == IF v = None THEN NoneText ELSE PyStr(v[1])

\* a float in an f-string: repr, which always shows a fractional part
FmtFloat(v) ==
  IF v = None THEN NoneText
  ELSE IF v[1].exp = 0 THEN PyStr(v[1].mant) \o <<".", "0">>
  ELSE PyStr(v[1].mant \div Pow10(v[1].exp)) \o <<".">>
       \o ZeroPad(PyStr(v[1].mant % Pow10(v[1].exp)), v[1].exp)

\* a str in an f-string
FmtText(v) == IF v = None THEN NoneText ELSE v[1]

\* mutant: the dietary restrictions are part of the hashed string
HashInput_WithDiet(profile, program_type) ==
  program_type \o <<"_">> \o FmtInt(profile.age) \o <<"_">> \o FmtFloat(profile.height)
  \o <<"_">> \o FmtFloat(profile.weight) \o <<"_">> \o FmtText(profile.gender)
  \o <<"_">> \o FmtText(profile.goal) \o <<"_">> \o FmtText(profile.dietary_restrictions)

\* s = f"{program_type}_{age}_{height}_{weight}_{gender}_{goal}"
HashInput(profile, program_type) ==
  program_type \o <<"_">> \o FmtInt(profile.age) \o <<"_">> \o FmtFloat(profile.height)
  \o <<"_">> \o FmtFloat(profile.weight) \o <<"_">> \o FmtText(profile.gender)
  \o <<"_">> \o FmtText(profile.goal)

\* hashlib.md5(...).hexdigest(), taken as collision-free: the digest stands for its input
Md5Hex(s) == <<"md5:">> \o s

make_hash(profile, program_type) == Md5Hex(HashInput(profile, program_type))

\* the profiles and types handed to make_hash
HashProfiles ==
  [username : {Some(<<"a", "l", "i">>), None}, full_name : {Some(<<"A">>)},
   age : {Some(7), Some(25)}, height : {Some(NormFloat(180, 0))},
   weight : {Some(NormFloat(755, 1))},
   gender : {Some(<<"a">>), Some(<<"a", "_", "b">>)},
   goal : {Some(<<"c">>), Some(<<"b", "_", "c">>)},
   dietary_restrictions : {Some(<<"n", "o">>), Some(<<"n", "u", "t", "s">>)},
   preferred_foods : {Some(<<"r", "i", "c", "e">>)}]

ProgramTypes == {<<"f", "u", "l", "l", "_", "p", "r", "o", "g", "r", "a", "m">>, <<"d", "i", "e", "t">>}

InitHash ==
  /\ InitBot
  /\ InitAux
  /\ hcase \in [p1 : HashProfiles, p2 : HashProfiles, type : ProgramTypes, h1 : {None}, h2 : {None}]

\* make_hash is applied to both profiles with the same type
HashBoth ==
  /\ hcase.h1 = None
  /\ hcase' = [hcase EXCEPT !.h1 = Some(make_hash(hcase.p1, hcase.type)),
                            !.h2 = Some(make_hash(hcase.p2, hcase.type))]
  /\ UNCHANGED <<botvars, ticked, got, inv, tally, asked>>

NextHash == HashBoth

SpecHash == InitHash /\ [][NextHash]_vars

(* ---------------- the program cache ---------------- *)
MaxPrograms == 2

GymIds == {"default_gym", "other_gym"}

\* created_at of the next row: CURRENT_TIMESTAMP has whole seconds, so a row inserted in the
\* same second as the row before it gets the same value
NextCreatedAt(tbl, tick) ==
  IF Len(tbl) = 0 THEN 0
  ELSE IF tick THEN tbl[Len(tbl)].created_at + 1 ELSE tbl[Len(tbl)].created_at

\* mutant: the row is stored without its fingerprint
save_program_NoHash(tbl, tick, gym_id, program_hash, program_type, program_data, user_profile) ==
  Append(tbl, [id |-> NextId(tbl), gym_id |-> gym_id, program_hash |-> <<>>,
               program_type |-> program_type, program_data |-> program_data,
               user_profile |-> user_profile, created_at |-> NextCreatedAt(tbl, tick)])

\* save_program: INSERT INTO programs (...), created_at takes its DEFAULT
save_program(tbl, tick, gym_id, program_hash, program_type, program_data, user_profile) ==
  Append(tbl, [id |-> NextId(tbl), gym_id |-> gym_id, program_hash |-> program_hash,
               program_type |-> program_type, program_data |-> program_data,
               user_profile |-> user_profile, created_at |-> NextCreatedAt(tbl, tick)])

\* WHERE program_hash=? AND gym_id=?
CacheMatches(tbl, program_hash, gym_id) ==
  {i \in 1..Len(tbl) : tbl[i].program_hash = program_hash /\ tbl[i].gym_id = gym_id}

\* get_cached_program: the values it may return. ORDER BY created_at DESC LIMIT 1 picks a row
\* with the greatest created_at; among rows with equal created_at SQL leaves the pick open.
\* None when no row matches
get_cached_program(tbl, program_hash, gym_id) ==
  LET m == CacheMatches(tbl, program_hash, gym_id)
  IN  IF m = {} THEN {None}
      ELSE {Some(tbl[i].program_data) :
              i \in {k \in m : \A j \in m : tbl[j].created_at <= tbl[k].created_at}}

\* the snapshot and the texts stored by direct calls of save_program
CacheProfile == CHOOSE pr \in HashProfiles : TRUE

DietType == <<"d", "i", "e", "t">>

CacheHashes == {make_hash(CacheProfile, DietType), <<"md5:", "x">>}

CacheTexts == {<<"t", "1">>, <<"t", "2">>}

\* a second passes
Tick ==
  /\ ~ticked /\ Len(programs) > 0
  /\ ticked' = TRUE
  /\ UNCHANGED <<session, gyms, users, payments, out, programs, hcase, got, inv, tally, asked>>

\* save_program is called
SaveProgram ==
  \E gym_id \in GymIds, h \in CacheHashes, text \in CacheTexts :
    /\ Len(programs) < MaxPrograms
    /\ programs' = save_program(programs, ticked, gym_id, h, DietType, text, CacheProfile)
    /\ ticked' = FALSE
    /\ got' = CacheCall("save", Some(h), gym_id, Some(text), FALSE)
    /\ UNCHANGED <<session, gyms, users, payments, out, hcase, inv, tally, asked>>

\* get_cached_program is called
Lookup ==
  \E gym_id \in GymIds, h \in CacheHashes :
    \E r \in get_cached_program(programs, h, gym_id) :
      /\ got' = CacheCall("lookup", Some(h), gym_id, r, FALSE)
      /\ UNCHANGED <<session, gyms, users, payments, out, programs, hcase, ticked, inv, tally, asked>>

NextCache == Tick \/ SaveProgram \/ Lookup

SpecCache == Init /\ [][NextCache]_vars

(* ---------------- generate ---------------- *)
\* fallback_program_text: one fixed text
fallback_program_text == <<"f", "a", "l", "l", "b", "a", "c", "k">>

\* generate_with_openai: None without an API key or when the call raises, else the completion
generate_with_openai(key, completion) == IF ~key THEN None ELSE completion

\* what the provider may answer: an exception (None) or a text
Completions == {None, Some(<<"p", "l", "a", "n">>)}

\* the profiles generate is called with: two that differ only in diet and username, one of another age
GenProfiles ==
  {pr \in HashProfiles :
     /\ pr.gender = Some(<<"a">>) /\ pr.goal = Some(<<"c">>)
     /\ \/ pr.age = Some(7) /\ pr.username = None /\ pr.dietary_restrictions = Some(<<"n", "o">>)
        \/ pr.age = Some(7) /\ pr.username # None /\ pr.dietary_restrictions # Some(<<"n", "o">>)
        \/ pr.age = Some(25) /\ pr.username = None /\ pr.dietary_restrictions = Some(<<"n", "o">>)}

\* generate(profile, type) for a gym, steps (1)-(6) of the design: fingerprint, cache lookup
\* (cached: what get_cached_program returned), provider or fallback on a miss, one new row
generate(tbl, tick, profile, program_type, gym_id, cached, key, completion) ==
  LET fp == make_hash(profile, program_type)
      answer == generate_with_openai(key, completion)
      text == IF answer = None THEN fallback_program_text ELSE answer[1]
  IN  IF cached # None
      THEN [programs |-> tbl, got |-> CacheCall("generate", Some(fp), gym_id, cached, FALSE)]
      ELSE [programs |-> save_program(tbl, tick, gym_id, fp, program_type, text, profile),
            got |-> CacheCall("generate", Some(fp), gym_id, Some(text), TRUE)]

\* generate is called
Generate ==
  \E profile \in GenProfiles, gym_id \in GymIds, key \in BOOLEAN, completion \in Completions :
    \E cached \in get_cached_program(programs, make_hash(profile, DietType), gym_id) :
      LET r == generate(programs, ticked, profile, DietType, gym_id, cached, key, completion)
      IN  /\ cached = None => Len(programs) < MaxPrograms
          /\ programs' = r.programs
          /\ got' = r.got
          /\ ticked' = (ticked /\ cached # None)
          /\ UNCHANGED <<session, gyms, users, payments, out, hcase, inv, tally, asked>>

NextGen == Tick \/ Generate

SpecGen == Init /\ [][NextGen]_vars

(* ======================= the claims ======================= *)
\* the rows of users of one (user, gym) pair
RowsOf(tbl, u, gym_id) == {i \in 1..Len(tbl) : tbl[i].user_id = PyStr(u) /\ tbl[i].gym_id = gym_id}

\* the payment rows that the word after /approve names
Named(tbl, args) == {i \in 1..Len(tbl) : SqlIdEq(tbl[i].id, args[1])}

ConversationOps == {"start", "callback", "msg"}

ApprovedNow(o) == o.op = "approve" /\ o.replies[1].kind = "approved"

\* C1: when a text message is handled at step foods and the handler returns normally, the
\* session is idle afterwards, users holds exactly one row for (user, default_gym), and that
\* row's seven profile fields are the answers collected in the session and the text just sent
C1_CompletionLeavesOneRow ==
  [][\A u \in Members :
       (out'.op = "msg" /\ out'.caller = u /\ session[u].step = "foods" /\ ~out'.raised)
       => /\ session'[u] = EmptySession
          /\ Cardinality(RowsOf(users', u, "default_gym")) = 1
          /\ \A i \in RowsOf(users', u, "default_gym") :
               /\ users'[i].age = session[u].age /\ users'[i].age # None
               /\ users'[i].height = session[u].height /\ users'[i].height # None
               /\ users'[i].weight = session[u].weight /\ users'[i].weight # None
               /\ users'[i].gender = session[u].gender /\ users'[i].gender # None
               /\ users'[i].goal = session[u].goal /\ users'[i].goal # None
               /\ users'[i].dietary_restrictions = session[u].dietary_restrictions
               /\ users'[i].dietary_restrictions # None
               /\ users'[i].preferred_foods = Some(Strip(out'.text))]_vars

\* C2: a text that fails the validation predicate of the numeric step it arrives at leaves the
\* whole session (step and collected fields) and the users, payments and programs tables as
\* they were
C2_InvalidNumericKeepsState ==
  [][\A u \in Members :
       (out'.op = "msg" /\ out'.caller = u /\ session[u].step \in {"age", "height", "weight"}
          /\ ~ValidAt(session[u].step, Strip(out'.text)))
       => (session' = session /\ users' = users /\ payments' = payments /\ programs' = programs)]_vars

\* C2 witness: an invalid weight has just been handled while age and height are collected
C2_Witness ==
  /\ out.op = "msg" /\ session[1].step = "weight"
  /\ ~ValidAt("weight", Strip(out.text))
  /\ session[1].age = Some(7) /\ session[1].height = Some(NormFloat(180, 0))

\* C3: users never holds two rows with the same (user_id, gym_id)
C3_OneRowPerPair ==
  \A i, j \in 1..Len(users) :
    (users[i].user_id = users[j].user_id /\ users[i].gym_id = users[j].gym_id) => i = j

\* C4: right after the success path of approve the payment is approved and admin-verified
\* and the User record of the payment's (user, gym) pair exists with payment_status paid
C4_ApproveMarksUserPaid ==
  [][ApprovedNow(out')
       => \A i \in Named(payments', out'.args) :
            /\ payments[i].status = "pending"
            /\ payments'[i].status = "approved" /\ payments'[i].admin_verified
            /\ \E k \in 1..Len(users') :
                 /\ users'[k].user_id = payments'[i].user_id
                 /\ users'[k].gym_id = payments'[i].gym_id
            /\ \A k \in 1..Len(users') :
                 (users'[k].user_id = payments'[i].user_id /\ users'[k].gym_id = payments'[i].gym_id)
                 => users'[k].payment_status = "paid"]_vars

\* C5: approve by an admin that names a payment already approved answers not-found, notifies
\* nobody, and leaves payments and users as they were, the payment still approved
C5_SecondApproveIsNoOp ==
  [][(/\ out'.op = "approve" /\ IsAdmin(out'.caller) /\ out'.args # <<>>
      /\ \E i \in Named(payments, out'.args) : payments[i].status = "approved")
       => /\ out'.replies = <<Msg("not_found", {}, TRUE)>>
          /\ out'.notify = <<>>
          /\ payments' = payments /\ users' = users
          /\ \A i \in Named(payments', out'.args) : payments'[i].status = "approved"]_vars

\* C5 witness: an admin's approve has just been answered not-found for an approved payment
C5_Witness ==
  /\ out.op = "approve" /\ IsAdmin(out.caller) /\ out.args # <<>>
  /\ out.replies[1].kind = "not_found"
  /\ \E i \in Named(payments, out.args) : payments[i].status = "approved"

\* C6: /admin, /pending and /approve from a caller outside the allow-list answer with the
\* fixed rejection only (no payment data), notify nobody, and leave payments and users alone
C6_NonAdminRejected ==
  [][(out'.op \in {"admin", "pending", "approve"} /\ out'.caller \notin admin_ids)
       => /\ out'.replies = <<Msg("admin_only", {}, TRUE)>>
          /\ out'.notify = <<>>
          /\ payments' = payments /\ users' = users]_vars

\* C6 witness: a non-admin has just tried to approve a payment that is pending
C6_Witness ==
  /\ out.op = "approve" /\ out.caller \notin admin_ids /\ out.args # <<>>
  /\ \E i \in Named(payments, out.args) : payments[i].status = "pending"
  /\ Len(users) > 0

\* C7: no step removes or renumbers a payment row; a row that changes goes from pending to
\* approved in an admin's approve; an approved row never changes again; a new row is pending
C7_PaymentLifecycle ==
  [][/\ Len(payments') >= Len(payments)
     /\ \A i \in 1..Len(payments) :
          /\ payments'[i].id = payments[i].id
          /\ payments[i].status = "approved" => payments'[i] = payments[i]
          /\ payments'[i] # payments[i]
             => /\ payments[i].status = "pending" /\ payments'[i].status = "approved"
                /\ out'.op = "approve" /\ IsAdmin(out'.caller)
     /\ \A i \in (Len(payments) + 1)..Len(payments') :
          payments'[i].status = "pending" /\ ~payments'[i].admin_verified]_vars

\* C7 witness: a payment created as pending has been approved and the user has then finished
\* the conversation
C7_Witness ==
  /\ out.op = "msg" /\ Len(users) > 0 /\ Len(payments) > 0
  /\ payments[1].status = "approved" /\ payments[1].verified_at = "set"

\* a (user, gym) pair that has a User row and whose every row says paid
PaidUser(tbl, u) ==
  /\ RowsOf(tbl, u, "default_gym") # {}
  /\ \A i \in RowsOf(tbl, u, "default_gym") : tbl[i].payment_status = "paid"

\* C8: no conversation operation (/start, the button, a text message) changes a paid user
\* into anything else: the payment_status recorded for the pair is still paid afterwards
C8_ConversationKeepsPaid ==
  [][\A u \in Members :
       (out'.op \in ConversationOps /\ out'.caller = u /\ PaidUser(users, u))
       => PaidUser(users', u)]_vars

C10_NotifyFailureKeepsState ==
  (out.op = "approve" /\ out.notify # <<>> /\ ~out.notify[1].ok)
  => /\ ~out.raised
     /\ \A i \in Named(payments, out.args) :
          /\ payments[i].status = "approved" /\ payments[i].admin_verified
          /\ PyInt(payments[i].user_id) = Some(out.notify[1].to)
          /\ \A k \in 1..Len(users) :
               (users[k].user_id = payments[i].user_id /\ users[k].gym_id = payments[i].gym_id)
               => users[k].payment_status = "paid"

\* C10 witness: the notification to user 1 has just failed and user 1 has a paid row
C10_Witness ==
  /\ out.op = "approve" /\ out.notify # <<>> /\ ~out.notify[1].ok
  /\ \E k \in 1..Len(users) : users[k].user_id = PyStr(out.notify[1].to) /\ users[k].payment_status = "paid"

\* C11: a text message in a session with no step is answered with the restart instruction
\* only, and leaves every session and the users, payments and programs tables as they were
C11_IdleTextRejected ==
  [][\A u \in Members :
       (out'.op = "msg" /\ out'.caller = u /\ session[u].step = "None")
       => /\ out'.replies = <<Msg("restart", {}, TRUE)>>
          /\ session' = session
          /\ users' = users /\ payments' = payments /\ programs' = programs /\ gyms' = gyms]_vars

\* C11 witness: after a completed conversation a further text has just been rejected
C11_Witness ==
  /\ out.op = "msg" /\ out.replies = <<Msg("restart", {}, TRUE)>>
  /\ session[out.caller] = EmptySession /\ Len(users) > 0

\* C12: /start leaves the caller's session with no step and no collected field, whatever it
\* held, and changes no row of users, payments or programs
C12_StartClearsSession ==
  [][\A u \in Members :
       (out'.op = "start" /\ out'.caller = u)
       => /\ session'[u] = EmptySession
          /\ users' = users /\ payments' = payments /\ programs' = programs]_vars

\* C12 witness: /start has just been handled while a profile and a payment exist
C12_Witness ==
  /\ out.op = "start" /\ session[out.caller].step = "None" /\ session[out.caller].age = None
  /\ Len(users) > 0 /\ Len(payments) > 0

\* C17: once the terminal step has saved the profile and tried to send the payment prompt,
\* delivered or not, the session is idle (so that a further text cannot save the profile again)
C17_ClearedBeforePrompt ==
  (out.op = "msg" /\ out.replies # <<>> /\ out.replies[1].kind = "saved")
  => session[out.caller] = EmptySession

\* C19: a User row says paid only if payments holds an approved row of the same user and gym
C19_PaidHasApprovedPayment ==
  \A k \in 1..Len(users) :
    users[k].payment_status = "paid"
    => \E i \in 1..Len(payments) :
         /\ payments[i].status = "approved"
         /\ payments[i].user_id = users[k].user_id
         /\ payments[i].gym_id = users[k].gym_id

\* C19 witness: a paid row exists next to a row of the same user that is not paid
C19_Witness ==
  /\ \E k \in 1..Len(users) : users[k].payment_status = "paid"
  /\ \E k \in 1..Len(users) : users[k].payment_status = "pending"

FingerprintFields == {"age", "height", "weight", "gender", "goal"}

SameOn(p1, p2, fields) == \A f \in fields : p1[f] = p2[f]

\* C13: two profiles that differ in age, height, weight, gender or goal get different hashed
\* strings, hence different fingerprints, for the same type
C13_DifferentFieldsDifferentHash ==
  (hcase.h1 # None /\ ~SameOn(hcase.p1, hcase.p2, FingerprintFields))
  => (HashInput(hcase.p1, hcase.type) # HashInput(hcase.p2, hcase.type) /\ hcase.h1 # hcase.h2)

\* C14: two profiles that agree on age, height, weight, gender and goal get the same
\* fingerprint for the same type, whatever their diet, foods, username and full name
C14_HashIgnoresOtherFields ==
  (hcase.h1 # None /\ SameOn(hcase.p1, hcase.p2, FingerprintFields)) => hcase.h1 = hcase.h2

\* C14 witness: hashed profiles that agree on the five fields and differ in diet and username
C14_Witness ==
  /\ hcase.h1 # None /\ SameOn(hcase.p1, hcase.p2, FingerprintFields)
  /\ hcase.p1.dietary_restrictions # hcase.p2.dietary_restrictions
  /\ hcase.p1.username # hcase.p2.username

\* the text of the row inserted last among those of a fingerprint and gym
LatestInserted(tbl, program_hash, gym_id) ==
  LET m == CacheMatches(tbl, program_hash, gym_id)
  IN  IF m = {} THEN None
      ELSE Some(tbl[CHOOSE k \in m : \A j \in m : j <= k].program_data)

\* C18: get_cached_program returns the text of the row inserted last among the rows with the
\* fingerprint and gym asked for, and nothing when there is no such row
C18_LookupReturnsLatest ==
  got.op = "lookup" => got.text = LatestInserted(programs, got.hash[1], got.gym_id)

\* a step in which generate answers (the clock's step is the only one that sets ticked)
GenerateAnswers == got'.op = "generate" /\ ~(~ticked /\ ticked')

\* C15: a call of generate that follows a call with the same fingerprint and gym returns the
\* text the first one returned, does not call the provider and adds no Program row; a call
\* that does call the provider adds exactly one row
C15_SecondGenerateHitsCache ==
  [][GenerateAnswers =>
       /\ (got.op = "generate" /\ got'.hash = got.hash /\ got'.gym_id = got.gym_id)
            => (got'.text = got.text /\ ~got'.provider /\ programs' = programs)
       /\ got'.provider
            => (Len(programs') = Len(programs) + 1
                /\ SubSeq(programs', 1, Len(programs)) = programs)]_vars

\* C15 witness: generate has just answered from the cache, a second after the row was stored,
\* for a profile that is not the one the row was generated for
C15_Witness ==
  /\ got.op = "generate" /\ ~got.provider /\ ticked
  /\ \E i \in 1..Len(programs) :
       /\ programs[i].program_hash = got.hash[1] /\ programs[i].gym_id = got.gym_id
       /\ Some(programs[i].program_data) = got.text
       /\ programs[i].user_profile.username # None
  /\ Len(programs) = 2

\* the invocations that took the success path for payment id
Succeeded(id) ==
  {i \in Invocations : inv[i].id = id /\ inv[i].pc \in {"reply_approved", "notify", "done"}}

\* C16: however two approve invocations for the same pending payment interleave at their await
\* points, at most one of them takes the success path, the payment is set to approved once and
\* at most one notification is sent for it
C16_AtMostOneApproveSucceeds ==
  \A id \in 1..Len(payments) :
    /\ Cardinality(Succeeded(id)) <= 1
    /\ Cardinality({i \in Invocations : <<i, id>> \in tally.approved}) <= 1
    /\ Cardinality({i \in Invocations : <<i, id>> \in tally.notified}) <= 1

\* C16 witness: an admin's second invocation for payment 1 ran its lookup while the first was
\* still waiting for its reply to be sent, and found nothing pending
C16_Witness ==
  /\ inv[1].pc = "reply_approved" /\ inv[1].id = 1
  /\ inv[2].pc = "reply_not_found" /\ SqlIdEq(1, inv[2].args[1])
  /\ tally.approved = {<<1, 1>>}

\* the steps before step s in the order of the conversation
StepsBefore(s) ==
  {Steps[j] : j \in {k \in 1..Len(Steps) : \E m \in (k + 1)..Len(Steps) : Steps[m] = s}}

\* the message just handled stored a profile
JustSaved == out.op = "msg" /\ out.replies # <<>> /\ out.replies[1].kind = "saved"

\* C20: when the current step is s, every field of a step before s is in the session with the
\* latest valid answer given for it since the step was last set to age, also when the
\* start_profile button was pressed again mid-flow; and the profile row stored at completion
\* holds, for all seven fields, these answers and no missing one
C20_EarlierFieldsAreLatestAnswers ==
  \A u \in Members :
    /\ \A st \in StepsBefore(session[u].step) :
         session[u][FieldOf(st)] # None /\ session[u][FieldOf(st)] = asked[st]
    /\ (JustSaved /\ out.caller = u)
         => \A k \in 1..Len(Steps) :
              /\ users[Len(users)][FieldOf(Steps[k])] # None
              /\ users[Len(users)][FieldOf(Steps[k])] = asked[Steps[k]]

\* C20 witness: a first pass with age 8 was stored and its fields stayed in the session, the
\* button was pressed again, and the second pass has answered age 7 and a height
C20_Witness ==
  \E u \in Members :
    /\ session[u].step = "weight" /\ session[u].age = Some(7) /\ session[u].weight # None
    /\ \E i \in 1..Len(users) : users[i].age = Some(8)

====
